---- MODULE Spec2Model ----
(***************************************************************************)
(* BoardBot frontend (shretsker/ThroughPut): the XState 5 machines of the  *)
(* test runners, the webSocketMachine, the chat/test/app machines and the  *)
(* state (de)serialisation, as state machines.                             *)
(*                                                                         *)
(* XState delivers an event sent to an idle actor synchronously, so one    *)
(* action here is one external event (a user event, a promise settling, a  *)
(* socket event) together with the whole run-to-completion cascade it      *)
(* causes in the receiving actor, its child and its parent.                *)
(***************************************************************************)
EXTENDS Integers, Sequences, FiniteSets, TLC

VARIABLES
    runner,     \* the test runner actor: its state value and its context
    ws,         \* the runner's webSocketMachine child: state value and context
    inflight,   \* requests emitted on the open socket and not yet answered
    sent,       \* every messageId emitted as text_message so far (history)
    log,        \* history of the run: pauses, runs, completions
    parentEvent,\* webSocketMachine alone: the last event it sent to its parent
    socketEmit, \* webSocketMachine alone: the data of the last parentActor.sendMessage
                \* handled, the last text_message emitted on the socket, and
                \* whether the last parentActor.sendMessage found no transition
    incoming,   \* webSocketMachine alone: the last text_response the running
                \* socketListener received and what became of it
    app,        \* appMachine with its chat, test and product actors, and localStorage
    prod,       \* productMachine alone, with the products the backend holds
    request,    \* the settings in the last request data a test runner built
    handshake,  \* webSocketMachine alone: what the socketConnector's socket has seen
                \* and emitted since the last accepted parentActor.connect
    calc        \* calculateProductAccuracy alone: its arguments and what it returned

vars == <<runner, ws, inflight, sent, log, parentEvent, socketEmit, incoming, app, prod,
          request, handshake, calc>>

\* ------------------------------------------------------------------ bounds
MaxCases == 2
MaxVariations == 1
MaxTurns == 2
MaxPauses == 1
MaxRuns == 2
MaxTests == 1
MaxChats == 1
MaxTicks == 1
MaxProducts == 21
MaxOther == 1
MaxChanges == 2
MaxListed == 2

\* ------------------------------------------------- program constants
MAX_RECONNECTION_ATTEMPTS == 5
APP_STATE_VERSION == "1.1"
PAGE_SIZE == 20

\* A field of a test case that the uploaded JSON left out (zod .optional()).
Absent == -1

TEST_TYPES == {"accuracy", "consistency", "feature_inference", "context_retention",
               "robustness", "conversational_flow", "defensibility"}

SingleKinds == {"accuracy", "feature_inference", "robustness"}
TurnKinds == {"context_retention", "conversational_flow", "defensibility"}

\* ------------------------------------------- accuracy runner: helper functions
\* String.prototype.toLowerCase on the product names used here.
toLowerCase(name) == IF name = "Desk" THEN "desk" ELSE name

\* A JavaScript number that is a quotient: num / den, NaN for 0 / 0.
Quotient(num, den) == [num |-> num, den |-> den]
IsNaN(q) == q.num = 0 /\ q.den = 0

\* calculateProductAccuracy(actualProducts, expectedProducts): expectedProducts
\* is [defined |-> FALSE] for undefined, else holds the array as list.
calculateProductAccuracy(actualProducts, expectedProducts) ==
    IF ~expectedProducts.defined
    THEN Quotient(1, 1)
    ELSE LET expectedProductNames == {toLowerCase(expectedProducts.list[i].name) :
                                          i \in DOMAIN expectedProducts.list}
             matchedProducts == {i \in DOMAIN actualProducts :
                                    toLowerCase(actualProducts[i].name)
                                        \in expectedProductNames}
         IN  Quotient(Cardinality(matchedProducts), Len(expectedProducts.list))

\* isTestPassed: productAccuracy > 0.4 (false for NaN).
isTestPassed(productAccuracy) ==
    /\ productAccuracy.den > 0
    /\ 5 * productAccuracy.num > 2 * productAccuracy.den

NoCalc == [actualProducts |-> <<>>, expectedProducts |-> [defined |-> FALSE, list |-> <<>>],
          called |-> FALSE, productAccuracy |-> Quotient(1, 1), passed |-> FALSE]

\* ------------------------------------------------------ webSocketMachine
\* context: WebSocketContextSchema.parse({socket: null, sessionId: null, reconnectionAttempts: 0})
WsInitial == [state |-> "idle", socket |-> FALSE, sessionId |-> "none",
              reconnectionAttempts |-> 0, notification |-> "none"]

canReconnect(w) == w.reconnectionAttempts < MAX_RECONNECTION_ATTEMPTS

\* parentActor.connect in idle without the reset of reconnectionAttempts.
WsConnectKeepingAttempts(w, sid) ==
    IF w.state = "idle"
    THEN [w EXCEPT !.state = "connecting", !.sessionId = sid]
    ELSE w

\* idle: on parentActor.connect -> connecting, assign sessionId and reconnectionAttempts 0.
\* No other state handles the event.
WsConnect(w, sid) ==
    IF w.state = "idle"
    THEN [w EXCEPT !.state = "connecting", !.sessionId = sid, !.reconnectionAttempts = 0]
    ELSE w

\* connecting: invoke socketConnector, onDone -> connected (assign socket,
\* sendParent webSocket.connected, emit "Connected to the server").
WsConnectorDone(w) ==
    [w EXCEPT !.state = "connected", !.socket = TRUE,
              !.notification = "Connected to the server"]

\* reconnecting: entry reconnectionAttempts + 1; always: guard canReconnect ->
\* idle with the notification, otherwise -> connecting.
WsReconnecting(w) ==
    LET w1 == [w EXCEPT !.reconnectionAttempts = @ + 1]
    IN  IF canReconnect(w1)
        THEN [w1 EXCEPT !.state = "idle",
                        !.notification = "Failed to reconnect after multiple attempts"]
        ELSE [w1 EXCEPT !.state = "connecting"]

\* connecting: onError -> reconnecting, emit "Failed to connect to the server".
WsConnectorError(w) ==
    WsReconnecting([w EXCEPT !.notification = "Failed to connect to the server"])

\* disconnecting: entry socket.close(), sendParent webSocket.disconnected; always -> idle.
WsDisconnecting(w) == [w EXCEPT !.state = "idle"]

\* socketConnector: a new socket (io(SOCKET_URL)) per invocation.  events is what
\* the socket received and emitted, in order; connected counts the
\* webSocket.connected sent since the last accepted parentActor.connect.
NoHandshake == [events |-> <<>>, connected |-> 0]

Received(name) == [dir |-> "received", name |-> name, sessionId |-> "none"]
Emitted(name, sid) == [dir |-> "emitted", name |-> name, sessionId |-> sid]

\* A "connect" handler that emits session_init at once.
onConnectSkippingInit(events, sid) ==
    events \o <<Received("connect"), Emitted("session_init", sid)>>

\* socket.on("connect", () => socket.emit("connection_init"))
onConnect(events, sid) ==
    events \o <<Received("connect"), Emitted("connection_init", "none")>>

\* socket.on("connection_ack", () => socket.emit("session_init", {session_id: input.sessionId}))
onConnectionAck(events, sid) ==
    events \o <<Received("connection_ack"), Emitted("session_init", sid)>>

\* socket.on("session_init", (data) => resolve({socket, data}))
onSessionInit(events) == events \o <<Received("session_init")>>

LastEmitted(events) ==
    IF events = <<>> THEN "none" ELSE events[Len(events)].name

\* ------------------------------------------------------------ test runners
\* The seven runner machines share idle / connecting / running / disconnecting;
\* they differ in the running substates, the order of the assign actions and
\* the guard testIsComplete.
Range(q) == {q[i] : i \in DOMAIN q}

SendingState(kind) ==
    IF kind \in TurnKinds THEN "running.sendingConversationTurn" ELSE "running.sendingMessage"

RunningStates == {"running.sendingMessage", "running.sendingConversationTurn", "running.paused"}

\* context: ({input}) => ...Schema.parse({... testResults: input.testResults || [],
\* currentTestIndex: input.currentTestIndex || 0, progress: input.progress || 0, ...}).
\* progress is kept as the numerator over len(testCases):
\* the code's progress is  runner.progress / len(testCases).
RunnerInitial(kind, cases) ==
    [kind |-> kind, state |-> "idle", sessionId |-> "s1", testCases |-> cases,
     testResults |-> <<>>, currentTestIndex |-> 0, progress |-> 0,
     conversation |-> <<>>, conversationIndex |-> 0,
     pendingResponses |-> 0, currentResponses |-> <<>>,
     model |-> "gpt-4o", architecture |-> "dynamic-agent",
     historyManagement |-> "keep-last-5"]

World == [runner |-> runner, ws |-> ws, inflight |-> inflight, sent |-> sent, log |-> log,
          request |-> request]

\* The variables of the other machines, which a runner step leaves alone.
NoEvent == [type |-> "none"]
Undefined == "undefined"

\* RequestDataSchema: type, sessionId and messageId are required strings (the
\* other required fields are always supplied by the senders modelled here).
RequestDataSchema(d) ==
    d.type # Undefined /\ d.sessionId # Undefined /\ d.messageId # Undefined

\* requestDataToJson: transformKeys(data, "camelToSnake").
requestDataToJson(d) ==
    [type |-> d.type, session_id |-> d.sessionId, message_id |-> d.messageId]

NoData == [type |-> Undefined, sessionId |-> Undefined, messageId |-> Undefined]
NoMessage == [type |-> Undefined, session_id |-> Undefined, message_id |-> Undefined]
NoEmit == [data |-> NoData, message |-> NoMessage, dropped |-> FALSE]

\* The event data spread after the context's sessionId, so that the event's
\* sessionId would win.
sendMessageEventSessionWins(w, data) ==
    IF RequestDataSchema(data) THEN requestDataToJson(data) ELSE NoMessage

\* actions.sendMessage: RequestDataSchema.parse({...event.data, sessionId:
\* context.sessionId}), then socket.emit("text_message", requestDataToJson(..)).
\* NoMessage when the parse throws.
sendMessage(w, data) ==
    LET message == [data EXCEPT !.sessionId = w.sessionId]
    IN  IF RequestDataSchema(message) THEN requestDataToJson(message) ELSE NoMessage
NoIncoming == [payload |-> "none", outcome |-> "none"]
RestOfRunner == <<parentEvent, socketEmit, incoming, app, prod, handshake, calc>>

Commit(W) ==
    /\ runner' = W.runner
    /\ ws' = W.ws
    /\ inflight' = W.inflight
    /\ sent' = W.sent
    /\ log' = W.log
    /\ request' = W.request
    /\ UNCHANGED RestOfRunner

\* An exception thrown while the actor computes a transition: the transition is
\* not taken and the actor stops with status "error".
Throw(W) == [W EXCEPT !.runner.state = "error"]
Threw(W) == W.runner.state = "error"

\* The model, architectureChoice and historyManagementChoice of the request data
\* a runner builds: context.model, context.architecture, and
\* context.historyManagement, for which the accuracy runner writes "keep-none".
NoRequest == [model |-> Undefined, architectureChoice |-> Undefined,
              historyManagementChoice |-> Undefined]

requestData(r) ==
    [model |-> r.model,
     architectureChoice |-> r.architecture,
     historyManagementChoice |-> IF r.kind = "accuracy" THEN "keep-none"
                                 ELSE r.historyManagement]

HasCase(r) == r.currentTestIndex < Len(r.testCases)
CurrentCase(r) == r.testCases[r.currentTestIndex + 1]

\* webSocketMachine action sendMessage, handled in connected only:
\* context.socket?.emit("text_message", ...), once per parentActor.sendMessage.
WsSendMessages(W, ids) ==
    IF W.ws.state = "connected"
    THEN [W EXCEPT !.inflight = @ \o ids, !.sent = @ \cup Range(ids)]
    ELSE W

\* sendNextMessage (accuracy, feature_inference, robustness):
\* messageId: context.testCases[context.currentTestIndex].messageId
sendNextMessage(W) ==
    IF ~HasCase(W.runner) THEN Throw(W)
    ELSE WsSendMessages([W EXCEPT !.runner.state = "running.sendingMessage",
                                  !.request = requestData(W.runner)],
                        << <<W.runner.currentTestIndex, 0>> >>)

\* sendTestCaseMessages then setPendingResponses (consistency): the prompt and
\* every variation, messageId `${messageId}_${index}`; pendingResponses = variations.length.
sendTestCaseMessages(W) ==
    IF ~HasCase(W.runner) THEN Throw(W)
    ELSE IF CurrentCase(W.runner).variations = Absent THEN Throw(W)
    ELSE LET V == CurrentCase(W.runner).variations
             ids == [k \in 1..(V + 1) |-> <<W.runner.currentTestIndex, k - 1>>]
         IN  WsSendMessages([W EXCEPT !.runner.state = "running.sendingMessage",
                                      !.runner.pendingResponses = V,
                                      !.runner.currentResponses = <<>>,
                                      !.request = requestData(W.runner)], ids)

\* sendNextConversationTurn (context_retention, conversational_flow, defensibility):
\* currentTestCase.conversation![context.conversationIndex].query
sendNextConversationTurn(W) ==
    IF ~HasCase(W.runner) THEN Throw(W)
    ELSE IF W.runner.conversationIndex >= CurrentCase(W.runner).conversation THEN Throw(W)
    ELSE WsSendMessages([W EXCEPT !.runner.state = "running.sendingConversationTurn",
                                  !.request = requestData(W.runner)],
                        << <<W.runner.currentTestIndex, W.runner.conversationIndex>> >>)

\* Entry of running.sendingMessage / running.sendingConversationTurn.
EnterSending(W) ==
    IF W.runner.kind \in SingleKinds THEN sendNextMessage(W)
    ELSE IF W.runner.kind = "consistency" THEN sendTestCaseMessages(W)
    ELSE sendNextConversationTurn(W)

\* disconnecting: entry sendTo(webSocketRef, parentActor.disconnect).  The
\* webSocketMachine handles it in connected only: disconnecting (socket.close(),
\* sendParent webSocket.disconnected) then idle; the runner then goes to idle,
\* whose entry spawns a fresh webSocketMachine.
EnterDisconnecting(W) ==
    IF W.ws.state = "connected"
    THEN [W EXCEPT !.runner.state = "idle", !.ws = WsInitial, !.inflight = <<>>]
    ELSE [W EXCEPT !.runner.state = "disconnecting"]

\* The guard with length - 1 in every runner.
testIsCompleteAtLastIndex(r) == r.currentTestIndex >= Len(r.testCases) - 1

\* guard testIsComplete
testIsComplete(r) ==
    IF r.kind \in SingleKinds \cup {"context_retention"}
    THEN r.currentTestIndex >= Len(r.testCases) - 1
    ELSE r.currentTestIndex >= Len(r.testCases)

\* evaluatingResult(s): always [{target: disconnecting, guard: testIsComplete}, {target: sending}]
AfterEvaluating(W) ==
    IF testIsComplete(W.runner)
    THEN EnterDisconnecting([W EXCEPT !.log.completed = @ + 1])
    ELSE EnterSending(W)

\* The result appended without increaseCurrentTestIndex.
SingleReceiveKeepingIndex(W, resp) ==
    AfterEvaluating([W EXCEPT !.runner.testResults = Append(@, [response |-> resp])])

\* updateTestResults, increaseCurrentTestIndex, increaseProgress of the
\* single-message runners, in the order the transition lists them (XState 5
\* runs assign actions in order, each on the context the previous one left).
\* accuracy: throws when the test case has no expected products; and
\* calculateProductAccuracy(testResponse.message.products, ...) filters the
\* response's products, which the schema leaves optional.
SingleReceive(W, resp) ==
    LET r == W.runner
        bad == /\ r.kind = "accuracy"
               /\ (~CurrentCase(r).products \/ ~resp.products)
        r1 == [r EXCEPT !.testResults = Append(@, [response |-> resp])]
        r2 == [r1 EXCEPT !.currentTestIndex = @ + 1]
        r3 == [r2 EXCEPT !.progress = (r2.currentTestIndex + 1) * 100]
    IN  IF bad THEN Throw(W) ELSE AfterEvaluating([W EXCEPT !.runner = r3])

\* consistency: sendingMessage on webSocket.messageReceived: the guard
\* allResponsesReceived is read before processResponse runs; evaluatingResults
\* entry: updateTestResults, increaseProgress, increaseCurrentTestIndex.
\* The guard passing one response early.
allResponsesReceivedAtOne(r) == r.pendingResponses <= 1

allResponsesReceived(r) == r.pendingResponses = 0

processResponse(r, resp) ==
    [r EXCEPT !.pendingResponses = @ - 1, !.currentResponses = Append(@, resp)]

ConsistencyReceive(W, resp) ==
    LET r == W.runner
        p == processResponse(r, resp)
        r1 == [p EXCEPT !.testResults =
                            Append(@, [mainPromptResponse |-> p.currentResponses[1],
                                       variationResponses |-> Tail(p.currentResponses)]),
                        !.currentResponses = <<>>]
        r2 == [r1 EXCEPT !.progress = (r1.currentTestIndex + 1) * 100]
        r3 == [r2 EXCEPT !.currentTestIndex = @ + 1]
    IN  IF allResponsesReceived(r)
        THEN AfterEvaluating([W EXCEPT !.runner = r3])
        ELSE [W EXCEPT !.runner = p]

\* conversation runners: updateConversation, then checkingConversation
\* (guard conversationComplete), then evaluatingResult.
\* The guard passing one turn early.
conversationCompleteEarly(r) == r.conversationIndex >= CurrentCase(r).conversation - 1

conversationComplete(r) == r.conversationIndex >= CurrentCase(r).conversation

\* context_retention: entry [updateTestResults, increaseCurrentTestIndex, increaseProgress];
\* conversational_flow, defensibility: one assign, every property computed on the
\* context before it.  defensibility reads conversation[conversationIndex - 1].message!
\* and trims it.
TurnEvaluate(W) ==
    LET r == W.runner
        r1 == [r EXCEPT !.testResults = Append(@, [conversation |-> r.conversation]),
                        !.conversation = <<>>, !.conversationIndex = 0]
        r2 == [r1 EXCEPT !.currentTestIndex = @ + 1]
        sep == [r2 EXCEPT !.progress = (r2.currentTestIndex + 1) * 100]
        one == [r2 EXCEPT !.progress = (r.currentTestIndex + 1) * 100]
    IN  IF r.kind = "defensibility" /\ ~CurrentCase(r).message THEN Throw(W)
        ELSE AfterEvaluating([W EXCEPT !.runner =
                                 IF r.kind = "context_retention" THEN sep ELSE one])

TurnReceive(W, resp) ==
    LET r1 == [W.runner EXCEPT !.conversation = Append(@, resp),
                               !.conversationIndex = @ + 1]
        W1 == [W EXCEPT !.runner = r1]
    IN  IF conversationComplete(r1) THEN TurnEvaluate(W1)
        ELSE sendNextConversationTurn(W1)

\* The runner's handler of webSocket.messageReceived: only the sending state
\* has one; an exception anywhere in the macrostep leaves the context as it was.
OnMessageReceived(W, resp) ==
    LET r == W.runner
        out == IF r.kind \in SingleKinds THEN SingleReceive(W, resp)
               ELSE IF r.kind = "consistency" THEN ConsistencyReceive(W, resp)
               ELSE TurnReceive(W, resp)
    IN  IF r.state # SendingState(r.kind) THEN W
        ELSE IF Threw(out) THEN Throw(W) ELSE out

\* The runner's handler of webSocket.connected: connecting -> running, entering
\* the initial sending substate.
OnConnected(W) ==
    IF W.runner.state # "connecting" THEN W
    ELSE LET out == EnterSending(W) IN IF Threw(out) THEN Throw(W) ELSE out

\* ------------------------------------------------- runner: initial states
\* The test cases a test file can hold: TestCaseSchema leaves products,
\* variations and conversation optional.
FileCases(kind) ==
    LET base == [products |-> FALSE, variations |-> Absent, conversation |-> 0,
                 message |-> FALSE]
    IN  CASE kind = "accuracy" -> {[base EXCEPT !.products = b] : b \in BOOLEAN}
          [] kind = "consistency" ->
                {[base EXCEPT !.variations = v] : v \in {Absent} \cup (0..MaxVariations)}
          [] kind \in {"context_retention", "conversational_flow"} ->
                {[base EXCEPT !.conversation = c] : c \in 0..MaxTurns}
          [] kind = "defensibility" ->
                {[base EXCEPT !.conversation = c, !.message = b] :
                     c \in 0..MaxTurns, b \in BOOLEAN}
          [] OTHER -> {base}

\* validateTestCases on one test case: TestCaseSchema, extended for the
\* conversation test types with a conversation of at least 2 turns.
validateTestCases(testCase, testType) ==
    testType \in TurnKinds => testCase.conversation >= 2

\* The test cases of the files CreateTestCard accepts (user.createTest is sent).
CaseShapes(kind) == {c \in FileCases(kind) : validateTestCases(c, kind)}

\* --------------------------------------- app, chat, test, product: the data
\* Of the three settings (model, architecture, historyManagement) the model keeps
\* model: the code carries the other two through the same assignments.
Null == [testId |-> "null"]
TypeError == [threw |-> "TypeError"]
ActorStub == "xstate$$type"
NoInput == [kind |-> "none"]

\* chatMachine context: sessionId is input.sessionId or a fresh uuid, chatHistory
\* is input.chatHistory or [], a new webSocketMachine is spawned.
chatMachine(input, uuid) ==
    [state |-> "idle",
     context |-> [sessionId |-> IF input.sessionId = Undefined THEN uuid
                                ELSE input.sessionId,
                  webSocketRef |-> WsInitial,
                  chatHistory |-> input.chatHistory,
                  model |-> input.model]]

\* testMachine context: selectedTest and tests are read from input.restoredState.
testMachine(input) ==
    [state |-> "idle",
     context |-> [selectedTest |-> IF "restoredState" \in DOMAIN input
                                   THEN input.restoredState.selectedTest ELSE Null,
                  tests |-> IF "restoredState" \in DOMAIN input
                            THEN input.restoredState.tests ELSE <<>>,
                  model |-> input.model]]

\* productMachine context: fixed, whatever the input.
productMachine ==
    [state |-> "idle",
     context |-> [products |-> <<>>, currentPage |-> 0, totalProducts |-> 0]]

\* A test runner's context built from its input (testResults, currentTestIndex
\* and progress default to [], 0, 0).
testRunnerMachine(kind, input) ==
    [RunnerInitial(kind, input.testCases) EXCEPT
        !.sessionId = input.sessionId,
        !.testResults = input.testResults,
        !.currentTestIndex = input.currentTestIndex,
        !.progress = input.progress]

\* JSON.parse(JSON.stringify(x)) on the values a state file holds: a Date becomes
\* a string, an actor reference becomes the stub of its toJSON.
JsonMessage(m) == [m EXCEPT !.timestamp = "string"]

JsonTest(t) == IF t = Null THEN Null ELSE [t EXCEPT !.testRunnerRef = ActorStub]

JsonRoundTrip(st) ==
    [st EXCEPT
        !.chatState.chatHistory = [i \in DOMAIN @ |-> JsonMessage(@[i])],
        !.testState.selectedTest = JsonTest(@),
        !.testState.tests = [i \in DOMAIN @ |-> JsonTest(@[i])]]

serializeChatState(chatRef) ==
    [sessionId |-> chatRef.context.sessionId,
     chatHistory |-> chatRef.context.chatHistory,
     model |-> chatRef.context.model,
     currentState |-> chatRef.state]

serializeTestRunnerState(testRunnerRef) ==
    [sessionId |-> testRunnerRef.sessionId,
     testCases |-> testRunnerRef.testCases,
     testResults |-> testRunnerRef.testResults,
     currentTestIndex |-> testRunnerRef.currentTestIndex,
     progress |-> testRunnerRef.progress,
     currentState |-> testRunnerRef.state]

serializeTestState(testRef) ==
    [selectedTest |-> testRef.context.selectedTest,
     tests |-> [i \in DOMAIN testRef.context.tests |->
                   [testId |-> testRef.context.tests[i].testId,
                    name |-> testRef.context.tests[i].name,
                    testType |-> testRef.context.tests[i].testType,
                    testRunnerRef |-> testRef.context.tests[i].testRunnerRef,
                    testRunnerState |->
                        serializeTestRunnerState(testRef.context.tests[i].testRunnerRef)]],
     model |-> testRef.context.model,
     currentState |-> testRef.state]

serializeProductState(productRef) ==
    [products |-> productRef.context.products,
     currentPage |-> productRef.context.currentPage,
     totalProducts |-> productRef.context.totalProducts,
     currentState |-> productRef.state]

\* serializeAppState(c) reads c.context.model, c.context.chatRef, ...: handed the
\* machine's context itself, c.context is undefined and the read throws.
serializeAppState(c) ==
    IF "context" \in DOMAIN c
    THEN [version |-> APP_STATE_VERSION,
          appState |-> [model |-> c.context.model],
          chatState |-> serializeChatState(c.context.chatRef),
          testState |-> serializeTestState(c.context.testRef),
          productState |-> serializeProductState(c.context.prodRef)]
    ELSE TypeError

\* RequestMessageSchema: isUserMessage is the literal true, timestamp a z.date().
RequestMessageSchema(m) == m.isUserMessage /\ m.timestamp = "Date"

\* ChatHistoryItemSchema: RequestMessageSchema, or ResponseMessageSchema, whose
\* isUserMessage is the literal false and whose timestamp is a date or a string.
ChatHistoryItemSchema(m) ==
    \/ RequestMessageSchema(m)
    \/ ~m.isUserMessage /\ m.timestamp \in {"Date", "string"}

\* ChatContextSchema.parse passes when every chatHistory entry does.
ChatContextSchema(savedState) ==
    \A i \in DOMAIN savedState.chatHistory : ChatHistoryItemSchema(savedState.chatHistory[i])

\* deserializeChatState: the parsed state (ResponseMessageSchema turns the
\* timestamp into a Date); TypeError stands for the ZodError.
deserializeChatState(savedState) ==
    IF ChatContextSchema(savedState)
    THEN [savedState EXCEPT
             !.chatHistory = [i \in DOMAIN @ |-> [@[i] EXCEPT !.timestamp = "Date"]]]
    ELSE TypeError

deserializeTestRunnerState(savedState) ==
    [sessionId |-> savedState.sessionId,
     testCases |-> savedState.testCases,
     testResults |-> savedState.testResults,
     currentTestIndex |-> savedState.currentTestIndex,
     progress |-> savedState.progress]

\* deserializeTestState: the saved state with each test's runner spawned again;
\* the result has selectedTest and tests at its top level, no restoredState.
deserializeTestState(savedState) ==
    LET respawn(test) ==
            [test EXCEPT !.testRunnerRef =
                testRunnerMachine(test.testType,
                                  deserializeTestRunnerState(test.testRunnerState))]
    IN  [savedState EXCEPT
            !.tests = [i \in DOMAIN savedState.tests |-> respawn(savedState.tests[i])]]

\* deserializeAppState: the new context, or TypeError for any exception thrown
\* (unsupported version, ZodError).
deserializeAppState(savedState) ==
    IF savedState.version # APP_STATE_VERSION \/ deserializeChatState(savedState.chatState) = TypeError
    THEN TypeError
    ELSE [model |-> savedState.appState.model,
          chatRef |-> chatMachine(deserializeChatState(savedState.chatState), "uuid2"),
          testRef |-> testMachine(deserializeTestState(savedState.testState)),
          prodRef |-> productMachine]

\* The machine's context when localStorage holds no 'appState'.
DefaultInput == [sessionId |-> Undefined, chatHistory |-> <<>>, model |-> "gpt-4o"]

AppInitial ==
    [status |-> "active",
     state |-> "open",
     open |-> "chatting",
     context |-> [model |-> "gpt-4o",
                  chatRef |-> [chatMachine(DefaultInput, "uuid1") EXCEPT
                                  !.state = "connecting",
                                  !.context.webSocketRef = WsConnect(@, "uuid1")],
                  testRef |-> testMachine(DefaultInput),
                  prodRef |-> productMachine],
     invokeInput |-> NoInput,
     event |-> "xstate.init",
     notification |-> "none",
     localStorage |-> [appState |-> Null],
     elapsed |-> 0]

\* ------------------------------------------- productMachine on its own
\* The backend's products: how many match the filter the user can apply, and
\* how many do not.
NoFilter == "undefined"
NoProduct == [id |-> 0, matches |-> FALSE]

\* GET /products: the products the backend holds under a filter, matching
\* ones first, each with the id of its place.
Listed(backend, filter) ==
    LET n == IF filter = NoFilter THEN backend.matching + backend.other
             ELSE backend.matching
    IN  [i \in 1..n |-> [id |-> i, matches |-> i <= backend.matching]]

\* productsFetcher: page context.currentPage of PAGE_SIZE products, and the total.
productsFetcher(backend, page, filter) ==
    LET all == Listed(backend, filter)
        first == page * PAGE_SIZE + 1
        last == IF (page + 1) * PAGE_SIZE < Len(all) THEN (page + 1) * PAGE_SIZE
                ELSE Len(all)
    IN  [products |-> IF first > last THEN <<>> ELSE SubSeq(all, first, last),
         totalProducts |-> Len(all)]

canGoToNextPage(context) == (context.currentPage + 1) * PAGE_SIZE < context.totalProducts
canGoToPreviousPage(context) == context.currentPage > 0

ProdInitial(backend) ==
    [state |-> "idle",
     context |-> [product |-> NoProduct, products |-> <<>>, currentPage |-> 0,
                  totalProducts |-> 0, filter |-> NoFilter],
     notification |-> "none",
     submitted |-> NoProduct,
     backend |-> backend,
     changes |-> 0]

NoBackend == [matching |-> 0, other |-> 0]

\* The settings a runner is created with (testMachine hands it context.model,
\* context.architecture and context.historyManagement).
RunnerSettings ==
    {[model |-> "gpt-4o", architecture |-> "dynamic-agent", historyManagement |-> "keep-last-5"],
     [model |-> "gpt-4o-mini", architecture |-> "llm-router", historyManagement |-> "keep-none"]}

InitRunner ==
    /\ \E kind \in TEST_TYPES : \E n \in 1..MaxCases :
           \E cases \in [1..n -> CaseShapes(kind)] :
           \E settings \in RunnerSettings :
               runner = [RunnerInitial(kind, cases) EXCEPT
                            !.model = settings.model,
                            !.architecture = settings.architecture,
                            !.historyManagement = settings.historyManagement]
    /\ ws = WsInitial
    /\ inflight = <<>>
    /\ sent = {}
    /\ log = [pauses |-> 0, runs |-> 0, completed |-> 0]
    /\ parentEvent = NoEvent
    /\ socketEmit = NoEmit
    /\ incoming = NoIncoming
    /\ request = NoRequest
    /\ handshake = NoHandshake
    /\ calc = NoCalc
    /\ app = AppInitial
    /\ prod = ProdInitial(NoBackend)

\* ----------------------------------------------------- runner: the events
\* idle: on user.startTest -> connecting; entry parentActor.connect.
StartTest ==
    /\ runner.state = "idle"
    /\ log.runs < MaxRuns
    /\ Commit([World EXCEPT !.runner.state = "connecting",
                            !.ws = WsConnect(ws, runner.sessionId),
                            !.log.runs = @ + 1])

\* socketConnector resolves (session_init received).
ConnectorDone ==
    /\ ws.state = "connecting"
    /\ Commit(OnConnected([World EXCEPT !.ws = WsConnectorDone(ws)]))

\* socketConnector rejects (connect_error).
ConnectorError ==
    /\ ws.state = "connecting"
    /\ Commit([World EXCEPT !.ws = WsConnectorError(ws)])

\* The backend answers request inflight[i]; socketListener accepts the
\* text_response and the webSocketMachine forwards it to the runner.
TextResponse(i, products) ==
    /\ ws.state = "connected"
    /\ i \in DOMAIN inflight
    /\ LET rest == [k \in 1..(Len(inflight) - 1) |->
                        IF k < i THEN inflight[k] ELSE inflight[k + 1]]
           resp == [replyTo |-> inflight[i], products |-> products]
       IN  Commit(OnMessageReceived([World EXCEPT !.inflight = rest], resp))

\* The backend's text_response fails responseMessageFromJson: handleTextResponse
\* logs it and sends nothing back.
InvalidResponse(i) ==
    /\ ws.state = "connected"
    /\ i \in DOMAIN inflight
    /\ inflight' = [k \in 1..(Len(inflight) - 1) |->
                        IF k < i THEN inflight[k] ELSE inflight[k + 1]]
    /\ UNCHANGED <<runner, ws, sent, log, request>>
    /\ UNCHANGED RestOfRunner

\* The socket drops: socketListener.disconnected, connected -> reconnecting.
\* Leaving connected stops socketListener: no later response is forwarded.
SocketDisconnected ==
    /\ ws.state = "connected"
    /\ Commit([World EXCEPT !.ws = WsReconnecting(ws), !.inflight = <<>>])

\* running: on user.pauseTest -> .paused
PauseTest ==
    /\ runner.state = SendingState(runner.kind)
    /\ log.pauses < MaxPauses
    /\ Commit([World EXCEPT !.runner.state = "running.paused", !.log.pauses = @ + 1])

\* paused: on user.continueTest -> the sending substate (its entry sends again).
ContinueTest ==
    /\ runner.state = "running.paused"
    /\ LET out == EnterSending(World)
       IN  Commit(IF Threw(out) THEN Throw(World) ELSE out)

\* running: on user.stopTest -> disconnecting
StopTest ==
    /\ runner.state \in RunningStates
    /\ Commit(EnterDisconnecting(World))

NextRunner ==
    \/ StartTest
    \/ ConnectorDone
    \/ ConnectorError
    \/ \E i \in 1..(MaxVariations + 3) : \E b \in BOOLEAN : TextResponse(i, b)
    \/ \E i \in 1..(MaxVariations + 3) : InvalidResponse(i)
    \/ SocketDisconnected
    \/ PauseTest
    \/ ContinueTest
    \/ StopTest

Spec == InitRunner /\ [][NextRunner]_vars

\* A run under the assumptions of an undisturbed run: the connection is
\* established and stays up, every request is answered by a response the
\* listener accepts, the user only starts the (freshly created) runner.
StartFresh ==
    /\ log.runs = 0
    /\ StartTest

AnyTextResponse == \E i \in 1..(MaxVariations + 3) : \E b \in BOOLEAN : TextResponse(i, b)

NextRun ==
    \/ StartFresh
    \/ ConnectorDone
    \/ AnyTextResponse

SpecRun ==
    /\ InitRunner
    /\ [][NextRun]_vars
    /\ WF_vars(ConnectorDone)
    /\ WF_vars(AnyTextResponse)

\* The first run of a runner with connection failures, socket drops and
\* user.stopTest, where a connector that can resolve eventually does and a
\* request in flight on the open socket is eventually answered.
NextLive ==
    \/ StartFresh
    \/ ConnectorDone
    \/ ConnectorError
    \/ AnyTextResponse
    \/ SocketDisconnected
    \/ StopTest

SpecLive ==
    /\ InitRunner
    /\ [][NextLive]_vars
    /\ WF_vars(ConnectorDone)
    /\ WF_vars(AnyTextResponse)

\* ------------------------------------------- chatTypes: response parsing
MODEL_VALUES == {"gpt-4o", "gpt-4o-mini", "gpt-4-turbo", "gpt-3.5-turbo",
                 "claude-3-sonnet-20240229", "claude-3-5-haiku-20241022"}

\* transformKeys(json, "snakeToCamel") / deepCamelCase on the key names in use.
SnakeToCamel(k) ==
    CASE k = "session_id" -> "sessionId"
      [] k = "message_id" -> "messageId"
      [] k = "is_complete" -> "isComplete"
      [] k = "architecture_choice" -> "architectureChoice"
      [] k = "history_management_choice" -> "historyManagementChoice"
      [] k = "is_user_message" -> "isUserMessage"
      [] k = "follow_up_question" -> "followUpQuestion"
      [] OTHER -> k

\* ResponseContentSchema: type and message are required strings; products is an
\* optional array of ProductSchema, whose wireless is an optional array of strings.
ResponseContentSchema(inner, wireless) ==
    /\ {"type", "message"} \subseteq inner
    /\ "products" \in inner => wireless = "list"

\* ResponseMessageSchema: every key below is required; model is one of MODEL_VALUES.
ResponseMessageSchema(top, model, inner, wireless) ==
    /\ {"messageId", "sessionId", "message", "isComplete", "model", "architectureChoice",
        "historyManagementChoice", "isUserMessage", "timestamp"} \subseteq top
    /\ model \in MODEL_VALUES
    /\ ResponseContentSchema(inner, wireless)

\* responseMessageFromJson: camel-case the keys, map message.response to
\* message.message when message.message is undefined, id to messageId when there
\* is no messageId, default isUserMessage to false, then ResponseMessageSchema.parse.
\* TRUE when the parse succeeds, FALSE when it throws "Invalid response data".
responseMessageFromJson(p) ==
    LET top1 == {SnakeToCamel(k) : k \in p.top}
        inner1 == {SnakeToCamel(k) : k \in p.inner}
        inner2 == IF "message" \notin inner1 /\ "response" \in inner1
                  THEN (inner1 \ {"response"}) \cup {"message"} ELSE inner1
        top2 == IF "id" \in top1 /\ "messageId" \notin top1
                THEN (top1 \ {"id"}) \cup {"messageId"} ELSE top1
        top3 == top2 \cup {"isUserMessage"}
    IN  ResponseMessageSchema(top3, p.model, inner2, p.wireless)

\* The text_response payloads considered: the keys every one carries, and the
\* ones that vary.
BaseTop == {"session_id", "message", "timestamp", "is_complete", "model", "architecture_choice"}
BaseInner == {"type", "reasoning", "follow_up_question", "metadata"}

Payloads ==
    {[top |-> BaseTop \cup t, model |-> m, inner |-> BaseInner \cup i, wireless |-> w] :
        t \in SUBSET {"message_id", "id", "history_management_choice"},
        m \in {"gpt-4o", "gpt-4"},
        i \in SUBSET {"response", "message", "products"},
        w \in {"list", "string"}}

SessionIds == {"s1", "s2"}

\* The data of a parentActor.sendMessage event.
RequestDatas ==
    [type : {"textMessage", Undefined},
     sessionId : SessionIds \cup {Undefined},
     messageId : {"m1", Undefined}]

\* --------------------------------------------- webSocketMachine on its own
InitWS ==
    /\ ws = WsInitial
    /\ parentEvent = NoEvent
    /\ socketEmit = NoEmit
    /\ incoming = NoIncoming
    /\ request = NoRequest
    /\ handshake = NoHandshake
    /\ calc = NoCalc
    /\ app = AppInitial
    /\ prod = ProdInitial(NoBackend)
    /\ runner = RunnerInitial("accuracy", <<>>)
    /\ inflight = <<>>
    /\ sent = {}
    /\ log = [pauses |-> 0, runs |-> 0, completed |-> 0]

RestOfWS == <<runner, inflight, sent, log, app, prod, request, calc>>

\* A new invocation of socketConnector starts with a new socket.
NewSocket(w, h) == IF w.state = "connecting" THEN [h EXCEPT !.events = <<>>] ELSE h

\* The parent sends parentActor.connect.
ParentConnect(sid) ==
    /\ ws' = WsConnect(ws, sid)
    /\ handshake' = IF ws.state = "idle" THEN NoHandshake ELSE handshake
    /\ UNCHANGED <<parentEvent, socketEmit, incoming>>
    /\ UNCHANGED RestOfWS

\* parentActor.sendMessage taken in every state of a running actor.
handlesSendMessageAnywhere(w) == w.state # "error"

\* The states with a transition on parentActor.sendMessage: connected.
handlesSendMessage(w) == w.state = "connected"

\* The parent sends parentActor.sendMessage: handled in connected only, by
\* action sendMessage; an exception thrown by the action stops the actor.
\* In the other states the event is dropped.
ParentSendMessage(data) ==
    /\ ws.state # "error"
    /\ LET message == sendMessage(ws, data)
       IN  IF ~handlesSendMessage(ws)
           THEN /\ ws' = ws
                /\ socketEmit' = [socketEmit EXCEPT !.dropped = TRUE]
           ELSE IF message = NoMessage
           THEN /\ ws' = [ws EXCEPT !.state = "error"]
                /\ socketEmit' = [data |-> data, message |-> socketEmit.message,
                                  dropped |-> FALSE]
           ELSE /\ ws' = ws
                /\ socketEmit' = [data |-> data, message |-> message, dropped |-> FALSE]
    /\ UNCHANGED <<parentEvent, incoming, handshake>>
    /\ UNCHANGED RestOfWS

\* The parent sends parentActor.disconnect: connected -> disconnecting -> idle.
\* Leaving connected stops socketListener: incoming is that listener's record.
ParentDisconnect ==
    /\ ws.state = "connected"
    /\ ws' = WsDisconnecting(ws)
    /\ parentEvent' = [type |-> "webSocket.disconnected"]
    /\ incoming' = NoIncoming
    /\ UNCHANGED <<socketEmit, handshake>>
    /\ UNCHANGED RestOfWS

\* The connector's socket connects: "connect".
SocketConnect ==
    /\ ws.state = "connecting"
    /\ handshake.events = <<>>
    /\ handshake' = [handshake EXCEPT !.events = onConnect(@, ws.sessionId)]
    /\ UNCHANGED <<ws, parentEvent, socketEmit, incoming>>
    /\ UNCHANGED RestOfWS

\* The server answers connection_init with connection_ack.
SocketConnectionAck ==
    /\ ws.state = "connecting"
    /\ LastEmitted(handshake.events) = "connection_init"
    /\ handshake' = [handshake EXCEPT !.events = onConnectionAck(@, ws.sessionId)]
    /\ UNCHANGED <<ws, parentEvent, socketEmit, incoming>>
    /\ UNCHANGED RestOfWS

\* The server answers session_init with session_init: the connector resolves,
\* connecting's onDone enters connected and sends webSocket.connected.
SocketConnectorDone ==
    /\ ws.state = "connecting"
    /\ LastEmitted(handshake.events) = "session_init"
    /\ ws' = WsConnectorDone(ws)
    /\ handshake' = [events |-> onSessionInit(handshake.events),
                     connected |-> handshake.connected + 1]
    /\ parentEvent' = [type |-> "webSocket.connected"]
    /\ UNCHANGED <<socketEmit, incoming>>
    /\ UNCHANGED RestOfWS

\* connect_error: the connector rejects.
SocketConnectorError ==
    /\ ws.state = "connecting"
    /\ ws' = WsConnectorError(ws)
    /\ handshake' = NewSocket(ws', handshake)
    /\ UNCHANGED <<parentEvent, socketEmit, incoming>>
    /\ UNCHANGED RestOfWS

\* socketListener.handleTextResponse: a payload that parses is sent back as
\* socketListener.messageReceived, which connected forwards to the parent as
\* webSocket.messageReceived; one that does not is logged and dropped.
SocketTextResponse(p) ==
    /\ ws.state = "connected"
    /\ IF responseMessageFromJson(p)
       THEN /\ incoming' = [payload |-> p, outcome |-> "forwarded"]
            /\ parentEvent' = [type |-> "webSocket.messageReceived"]
       ELSE /\ incoming' = [payload |-> p, outcome |-> "dropped"]
            /\ UNCHANGED parentEvent
    /\ UNCHANGED <<ws, socketEmit, handshake>>
    /\ UNCHANGED RestOfWS

\* socket "disconnect": socketListener.disconnected, connected -> reconnecting.
SocketDisconnect ==
    /\ ws.state = "connected"
    /\ ws' = WsReconnecting(ws)
    /\ handshake' = NewSocket(ws', handshake)
    /\ incoming' = NoIncoming
    /\ UNCHANGED <<parentEvent, socketEmit>>
    /\ UNCHANGED RestOfWS

NextWS ==
    \/ \E sid \in SessionIds : ParentConnect(sid)
    \/ \E data \in RequestDatas : ParentSendMessage(data)
    \/ ParentDisconnect
    \/ SocketConnect
    \/ SocketConnectionAck
    \/ SocketConnectorDone
    \/ SocketConnectorError
    \/ \E p \in Payloads : SocketTextResponse(p)
    \/ SocketDisconnect

SpecWS == InitWS /\ [][NextWS]_vars

\* ---------------------------------------------- appMachine and its actors
RestOfApp == <<runner, ws, inflight, sent, log, parentEvent, socketEmit, incoming, prod,
              request, handshake, calc>>

Chatting == {"chatting.awaitingUserInput", "chatting.processingMessage"}
Displaying == {"displayingTest.displayingTestPage", "displayingTest.displayingTestDetails"}
Tabs == {"chatting", "testing", "managingProducts"}
Models == {"gpt-4o", "gpt-4o-mini"}

\* chatMachine: app.startChat in idle enters connecting, whose entry sends
\* parentActor.connect to the web socket actor.
startChat(c) ==
    IF c.state = "idle"
    THEN [c EXCEPT !.state = "connecting",
                   !.context.webSocketRef = WsConnect(@, c.context.sessionId)]
    ELSE c

\* chatMachine: app.stopChat in chatting enters disconnecting, whose entry sends
\* parentActor.disconnect; a connected web socket actor answers
\* webSocket.disconnected at once and the chat actor goes to idle.
stopChat(c) ==
    IF c.state \in Chatting
    THEN IF c.context.webSocketRef.state = "connected"
         THEN [c EXCEPT !.state = "idle",
                        !.context.webSocketRef = WsDisconnecting(@)]
         ELSE [c EXCEPT !.state = "disconnecting"]
    ELSE c

\* testMachine: app.startTest in idle, app.stopTest in displayingTest.
startTest(t) ==
    IF t.state = "idle" THEN [t EXCEPT !.state = "displayingTest.displayingTestPage"] ELSE t

stopTest(t) == IF t.state \in Displaying THEN [t EXCEPT !.state = "idle"] ELSE t

\* productMachine: app.startManagingProducts in idle, app.stopManagingProducts
\* in displayingProducts.
startManagingProducts(p) ==
    IF p.state = "idle" THEN [p EXCEPT !.state = "displayingProducts"] ELSE p

stopManagingProducts(p) ==
    IF p.state = "displayingProducts" THEN [p EXCEPT !.state = "idle"] ELSE p

\* Entry and exit actions of open.chatting, open.testing, open.managingProducts.
EnterOpen(a, tab) ==
    LET b == [a EXCEPT !.state = "open", !.open = tab]
    IN  CASE tab = "chatting" -> [b EXCEPT !.context.chatRef = startChat(@)]
          [] tab = "testing" -> [b EXCEPT !.context.testRef = startTest(@)]
          [] OTHER -> [b EXCEPT !.context.prodRef = startManagingProducts(@)]

ExitOpen(a) ==
    CASE a.open = "chatting" -> [a EXCEPT !.context.chatRef = stopChat(@)]
      [] a.open = "testing" -> [a EXCEPT !.context.testRef = stopTest(@)]
      [] OTHER -> [a EXCEPT !.context.prodRef = stopManagingProducts(@)]

\* app.updateState dropped by the receiving actor.
updateStateIgnored(actor, model) == actor

\* app.updateState in chatMachine and testMachine (a root-level transition,
\* taken in every state).
updateState(actor, model) == [actor EXCEPT !.context.model = model]

InitApp ==
    /\ app = AppInitial
    /\ prod = ProdInitial(NoBackend)
    /\ runner = RunnerInitial("accuracy", <<>>)
    /\ ws = WsInitial
    /\ inflight = <<>>
    /\ sent = {}
    /\ log = [pauses |-> 0, runs |-> 0, completed |-> 0]
    /\ parentEvent = NoEvent
    /\ socketEmit = NoEmit
    /\ incoming = NoIncoming
    /\ request = NoRequest
    /\ handshake = NoHandshake
    /\ calc = NoCalc

Running == app.status = "active"

\* The tab selection handled in every state of the app.
handlesSelectTabAnywhere(a) == TRUE

\* user.selectChat, user.selectTest and user.selectManageProducts are
\* transitions of open only.
handlesSelectTab(a) == a.state = "open"

\* user.selectChat, user.selectTest, user.selectManageProducts: in open the
\* active substate is left and the selected one entered; in a dialog state the
\* event has no transition and is dropped.
UserSelectTab(tab) ==
    /\ Running
    /\ app' = IF handlesSelectTab(app)
              THEN [EnterOpen(ExitOpen(app), tab) EXCEPT !.event = "user.select"]
              ELSE [app EXCEPT !.event = "user.select"]
    /\ UNCHANGED RestOfApp

\* open: user.importState, user.exportState, user.updateSetting.
UserOpenDialog(dialog) ==
    /\ Running /\ app.state = "open"
    /\ app' = [ExitOpen(app) EXCEPT
                  !.state = CASE dialog = "user.importState" ->
                                     "importingState.displayingImportStateForm"
                              [] dialog = "user.exportState" ->
                                     "exportingState.displayingExportStateForm"
                              [] OTHER -> "updatingSettings.displayingUpdateSettingForm",
                  !.event = dialog]
    /\ UNCHANGED RestOfApp

\* user.cancelImportState, user.cancelExportState, user.cancelUpdateSetting:
\* back to open.history.
UserCancelDialog ==
    /\ Running /\ app.state # "open"
    /\ app' = [EnterOpen(app, app.open) EXCEPT !.invokeInput = NoInput, !.event = "user.cancel"]
    /\ UNCHANGED RestOfApp

\* The files the user can hand to the import form: one holding what
\* serializeAppState writes for the present state, the same with another
\* version, and one that is not JSON.
StateFiles ==
    LET written == JsonRoundTrip(serializeAppState([context |-> app.context]))
    IN  {[json |-> TRUE, state |-> written],
         [json |-> TRUE, state |-> [written EXCEPT !.version = "1.0"]],
         [json |-> FALSE, state |-> written]}

\* importingState.displayingImportStateForm: user.submitImportStateForm.
UserSubmitImportStateForm(file) ==
    /\ Running /\ app.state = "importingState.displayingImportStateForm"
    /\ app' = [app EXCEPT !.state = "importingState.importingState",
                          !.invokeInput = [kind |-> "import", file |-> file],
                          !.event = "user.submitImportStateForm"]
    /\ UNCHANGED RestOfApp

\* exportingState.displayingExportStateForm: user.submitExportStateForm. The
\* invoke's input is computed on entry to exportingState.exportingState; an
\* exception there stops the app actor.
UserSubmitExportStateForm(fileName) ==
    /\ Running /\ app.state = "exportingState.displayingExportStateForm"
    /\ LET state == serializeAppState(app.context)
       IN  app' = IF state = TypeError
                  THEN [app EXCEPT !.status = "error",
                                   !.event = "user.submitExportStateForm"]
                  ELSE [app EXCEPT !.state = "exportingState.exportingState",
                                   !.invokeInput = [kind |-> "export",
                                                    fileName |-> fileName,
                                                    state |-> state],
                                   !.event = "user.submitExportStateForm"]
    /\ UNCHANGED RestOfApp

\* The invoked importState or exportState promise settles.
\* importState: rejected for a file that is not JSON (onError); otherwise onDone
\* assigns deserializeAppState(event.output), emits 'State imported
\* successfully' and enters open.history with the new context; an exception in
\* the assign stops the app actor.
\* exportState: onDone enters open.history and emits 'State exported successfully'.
InvokeSettled ==
    /\ Running
    /\ app.state \in {"importingState.importingState", "exportingState.exportingState"}
    /\ LET input == app.invokeInput
           restored == deserializeAppState(input.file.state)
       IN  app' =
             IF input.kind = "export"
             THEN [EnterOpen(app, app.open) EXCEPT
                      !.notification = "State exported successfully",
                      !.invokeInput = NoInput,
                      !.event = "xstate.done.actor.exportState"]
             ELSE IF ~input.file.json
             THEN [app EXCEPT !.state = "importingState.displayingImportStateForm",
                              !.notification = "Failed to import state",
                              !.event = "xstate.error.actor.importState"]
             ELSE IF restored = TypeError
             THEN [app EXCEPT !.status = "error",
                              !.event = "xstate.done.actor.importState"]
             ELSE [EnterOpen([app EXCEPT !.context = restored], app.open) EXCEPT
                      !.notification = "State imported successfully",
                      !.invokeInput = NoInput,
                      !.event = "xstate.done.actor.importState"]
    /\ UNCHANGED RestOfApp

\* updatingSettings: user.submitUpdateSettingForm: assign, app.updateState to the
\* chat and test actors, back to open.history.
UserSubmitUpdateSettingForm(model) ==
    /\ Running /\ app.state = "updatingSettings.displayingUpdateSettingForm"
    /\ app' = EnterOpen([app EXCEPT
                            !.context.model = model,
                            !.context.chatRef = updateState(@, model),
                            !.context.testRef = updateState(@, model),
                            !.event = "user.submitUpdateSettingForm"],
                        app.open)
    /\ UNCHANGED RestOfApp

\* updatingSettings: user.submitResetSettings: the same with the default settings.
UserSubmitResetSettings ==
    /\ Running /\ app.state = "updatingSettings.displayingUpdateSettingForm"
    /\ app' = EnterOpen([app EXCEPT
                            !.context.model = "gpt-4o",
                            !.context.chatRef = updateState(@, "gpt-4o"),
                            !.context.testRef = updateState(@, "gpt-4o"),
                            !.event = "user.submitResetSettings"],
                        app.open)
    /\ UNCHANGED RestOfApp

\* The chat actor's socketConnector resolves: webSocket.connected.
ChatConnected ==
    /\ Running
    /\ app.context.chatRef.context.webSocketRef.state = "connecting"
    /\ app' = [app EXCEPT
                  !.context.chatRef.context.webSocketRef = WsConnectorDone(@),
                  !.context.chatRef.state =
                      IF @ = "connecting" THEN "chatting.awaitingUserInput" ELSE @]
    /\ UNCHANGED RestOfApp

\* chatting.awaitingUserInput: user.sendMessage appends the request to chatHistory.
UserSendMessage ==
    /\ Running
    /\ app.context.chatRef.state = "chatting.awaitingUserInput"
    /\ Len(app.context.chatRef.context.chatHistory) < 2 * MaxChats
    /\ app' = [app EXCEPT
                  !.context.chatRef.state = "chatting.processingMessage",
                  !.context.chatRef.context.chatHistory =
                      Append(@, [messageId |-> Len(@) + 1, isUserMessage |-> TRUE,
                                 timestamp |-> "Date"])]
    /\ UNCHANGED RestOfApp

\* chatting.processingMessage: webSocket.messageReceived appends the response.
ChatMessageReceived ==
    /\ Running
    /\ app.context.chatRef.state = "chatting.processingMessage"
    /\ app.context.chatRef.context.webSocketRef.state = "connected"
    /\ app' = [app EXCEPT
                  !.context.chatRef.state = "chatting.awaitingUserInput",
                  !.context.chatRef.context.chatHistory =
                      Append(@, [messageId |-> Len(@) + 1, isUserMessage |-> FALSE,
                                 timestamp |-> "Date"])]
    /\ UNCHANGED RestOfApp

\* The tests the user creates here: two of the test types, each with one test
\* case that carries every field.
CreatedTypes == {"accuracy", "consistency"}

CompleteCase == [products |-> TRUE, variations |-> 0, conversation |-> 0, message |-> TRUE]

\* displayingTest: user.createTest spawns the runner of the test type and
\* appends the test; selectedTest is left alone.
UserCreateTest(testType, testCase) ==
    /\ Running
    /\ app.context.testRef.state \in Displaying
    /\ Len(app.context.testRef.context.tests) < MaxTests
    /\ LET id == Len(app.context.testRef.context.tests) + 1
           newTest == [testId |-> id, name |-> id, testType |-> testType,
                       testRunnerRef |->
                           testRunnerMachine(testType,
                               [sessionId |-> id, testCases |-> <<testCase>>,
                                testResults |-> <<>>, currentTestIndex |-> 0,
                                progress |-> 0])]
       IN  app' = [app EXCEPT
                      !.context.testRef.state = "displayingTest.displayingTestDetails",
                      !.context.testRef.context.tests = Append(@, newTest)]
    /\ UNCHANGED RestOfApp

\* displayingTest: user.selectTest.
UserSelectTest(testId) ==
    /\ Running
    /\ app.context.testRef.state \in Displaying
    /\ LET tests == app.context.testRef.context.tests
           found == {i \in DOMAIN tests : tests[i].testId = testId}
       IN  app' = [app EXCEPT
                      !.context.testRef.state = "displayingTest.displayingTestDetails",
                      !.context.testRef.context.selectedTest =
                          IF found = {} THEN Null
                          ELSE tests[CHOOSE i \in found : \A j \in found : i <= j]]
    /\ UNCHANGED RestOfApp

\* open: sys.saveState writes the serialized state under 'appState'.
saveState(a) ==
    IF a.state = "open"
    THEN [a EXCEPT !.localStorage.appState =
                       JsonRoundTrip(serializeAppState([context |-> a.context]))]
    ELSE a

\* useAppContext: the effect that would send sys.saveState every 30 seconds is
\* commented out; no interval is installed.
AutosaveInstalled == FALSE

\* 30 seconds pass.
Tick ==
    /\ app.elapsed < MaxTicks
    /\ app' = LET later == [app EXCEPT !.elapsed = @ + 1]
              IN  IF AutosaveInstalled /\ Running THEN saveState(later) ELSE later
    /\ UNCHANGED RestOfApp

NextApp ==
    \/ \E tab \in Tabs : UserSelectTab(tab)
    \/ \E dialog \in {"user.importState", "user.exportState", "user.updateSetting"} :
          UserOpenDialog(dialog)
    \/ UserCancelDialog
    \/ \E file \in StateFiles : UserSubmitImportStateForm(file)
    \/ \E fileName \in {"state.json"} : UserSubmitExportStateForm(fileName)
    \/ InvokeSettled
    \/ \E model \in Models : UserSubmitUpdateSettingForm(model)
    \/ UserSubmitResetSettings
    \/ ChatConnected
    \/ UserSendMessage
    \/ ChatMessageReceived
    \/ \E testType \in CreatedTypes : UserCreateTest(testType, CompleteCase)
    \/ \E testId \in 1..MaxTests : UserSelectTest(testId)
    \/ Tick

SpecApp == InitApp /\ [][NextApp]_vars

\* ------------------------------------------------ productMachine: events
RestOfProd == <<runner, ws, inflight, sent, log, parentEvent, socketEmit, incoming, app,
               request, handshake, calc>>

InitProd ==
    /\ \E m \in {0, MaxProducts - 1, MaxProducts} : \E o \in 0..MaxOther :
           /\ m + o <= MaxProducts
           /\ prod = ProdInitial([matching |-> m, other |-> o])
    /\ app = AppInitial
    /\ runner = RunnerInitial("accuracy", <<>>)
    /\ ws = WsInitial
    /\ inflight = <<>>
    /\ sent = {}
    /\ log = [pauses |-> 0, runs |-> 0, completed |-> 0]
    /\ parentEvent = NoEvent
    /\ socketEmit = NoEmit
    /\ incoming = NoIncoming
    /\ request = NoRequest
    /\ handshake = NoHandshake
    /\ calc = NoCalc

ModalStates == {"displayingProduct", "displayingUpdateProductForm",
                "displayingDeleteProductForm", "updatingProduct", "deletingProduct"}
AddStates == {"displayingForm", "addingProduct", "addingProductFormRawData",
              "addingProductsFormRawData"}
CallingStates == {"updatingProduct", "deletingProduct", "addingProduct",
                  "addingProductFormRawData", "addingProductsFormRawData"}

\* The form an invoke's onError goes back to.
FormOf(state) ==
    CASE state = "updatingProduct" -> "displayingUpdateProductForm"
      [] state = "deletingProduct" -> "displayingDeleteProductForm"
      [] OTHER -> "displayingForm"

FailureMessage(state) ==
    CASE state = "updatingProduct" -> "Failed to update product"
      [] state = "deletingProduct" -> "Failed to delete product"
      [] state = "addingProduct" -> "Failed to add product"
      [] state = "addingProductFormRawData" -> "Failed to add product from raw data"
      [] OTHER -> "Failed to add products from CSV"

\* An onError that closes the dialog and reloads the table from the first page.
onErrorReloading(p) ==
    [p EXCEPT !.state = "fetchingProducts", !.context.currentPage = 0,
              !.notification = FailureMessage(p.state), !.submitted = NoProduct]

\* onError of productUpdater, productDeleter, productAdder, rawProductAdder,
\* rawProductsAdder: back to the form, emit the error notification, no assign.
onError(p) ==
    [p EXCEPT !.state = FormOf(p.state), !.notification = FailureMessage(p.state),
              !.submitted = NoProduct]

OutsideProdAndApp == <<runner, ws, inflight, sent, log, parentEvent, socketEmit, incoming,
                       request, handshake, calc>>

\* open: user.selectManageProducts. The entry of open.managingProducts sends
\* app.startManagingProducts, which the product actor takes in idle; when the
\* app is already in open.managingProducts the state is left and entered again,
\* so app.stopManagingProducts comes first.
AppStartManagingProducts ==
    /\ Running /\ app.state = "open"
    /\ app' = [EnterOpen(ExitOpen(app), "managingProducts") EXCEPT !.event = "user.select"]
    /\ prod' = [prod EXCEPT !.state = "fetchingProducts", !.notification = "none",
                            !.submitted = NoProduct]
    /\ UNCHANGED OutsideProdAndApp

\* open.managingProducts: the user selects another tab. The exit sends
\* app.stopManagingProducts, taken in displayingProducts (a running invoke is
\* stopped) and dropped in idle.
AppStopManagingProducts(tab) ==
    /\ Running /\ app.state = "open" /\ app.open = "managingProducts"
    /\ app' = [EnterOpen(ExitOpen(app), tab) EXCEPT !.event = "user.select"]
    /\ prod' = [prod EXCEPT !.state = "idle", !.notification = "none",
                            !.submitted = NoProduct]
    /\ UNCHANGED OutsideProdAndApp

\* fetchingProducts: productsFetcher resolves; assign products, totalProducts.
FetchDone ==
    /\ prod.state = "fetchingProducts"
    /\ LET output == productsFetcher(prod.backend, prod.context.currentPage,
                                     prod.context.filter)
       IN  prod' = [prod EXCEPT !.state = "displayingProductsTable",
                                !.notification = "none",
                                !.context.products = output.products,
                                !.context.totalProducts = output.totalProducts]
    /\ UNCHANGED RestOfProd

\* fetchingProducts: productsFetcher rejects.
FetchError ==
    /\ prod.state = "fetchingProducts"
    /\ prod' = [prod EXCEPT !.state = "idle", !.notification = "Failed to fetch products"]
    /\ app' = [app EXCEPT !.context.prodRef.state = "idle"]
    /\ UNCHANGED OutsideProdAndApp

\* displayingProductsTable: user.nextPage, guard canGoToNextPage.
UserNextPage ==
    /\ prod.state = "displayingProductsTable"
    /\ canGoToNextPage(prod.context)
    /\ prod' = [prod EXCEPT !.state = "fetchingProducts", !.context.currentPage = @ + 1,
                            !.notification = "none"]
    /\ UNCHANGED RestOfProd

\* displayingProductsTable: user.previousPage, guard canGoToPreviousPage.
UserPreviousPage ==
    /\ prod.state = "displayingProductsTable"
    /\ canGoToPreviousPage(prod.context)
    /\ prod' = [prod EXCEPT !.state = "fetchingProducts",
                            !.context.currentPage = IF @ - 1 > 0 THEN @ - 1 ELSE 0,
                            !.notification = "none"]
    /\ UNCHANGED RestOfProd

\* displayingProductsTable: user.applyFilter.
UserApplyFilter(filter) ==
    /\ prod.state = "displayingProductsTable"
    /\ prod' = [prod EXCEPT !.state = "fetchingProducts", !.context.filter = filter,
                            !.context.currentPage = 0, !.notification = "none"]
    /\ UNCHANGED RestOfProd

\* displayingProductsTable: user.selectProduct with the first or the last
\* product of the table.
UserSelectProduct(i) ==
    /\ prod.state = "displayingProductsTable"
    /\ i \in DOMAIN prod.context.products
    /\ i \in {1, Len(prod.context.products)}
    /\ prod' = [prod EXCEPT !.state = "displayingProduct", !.notification = "none",
                            !.context.product = prod.context.products[i]]
    /\ UNCHANGED RestOfProd

\* displayingProductsTable: user.addProducts.
UserAddProducts ==
    /\ prod.state = "displayingProductsTable"
    /\ prod' = [prod EXCEPT !.state = "displayingForm", !.notification = "none"]
    /\ UNCHANGED RestOfProd

\* user.closeProductDetailModal, user.closeAddProducts: back to the table.
UserCloseDialog ==
    /\ prod.state \in ModalStates \cup AddStates
    /\ prod' = [prod EXCEPT !.state = "displayingProductsTable", !.notification = "none",
                            !.submitted = NoProduct]
    /\ UNCHANGED RestOfProd

\* user.cancelProductUpdate, user.cancelAddProduct: back to the dialog's first state.
UserCancel ==
    /\ prod.state \in ModalStates \cup AddStates
    /\ prod' = [prod EXCEPT !.state = IF prod.state \in ModalStates
                                      THEN "displayingProduct" ELSE "displayingForm",
                            !.notification = "none", !.submitted = NoProduct]
    /\ UNCHANGED RestOfProd

\* displayingProduct: user.selectUpdateProduct, user.selectDeleteProduct.
UserSelectForm(form) ==
    /\ prod.state = "displayingProduct"
    /\ prod' = [prod EXCEPT !.state = form, !.notification = "none"]
    /\ UNCHANGED RestOfProd

\* displayingUpdateProductForm: user.submitUpdateProduct;
\* displayingDeleteProductForm: user.submitDeleteProduct;
\* displayingForm: user.submitAddProduct, user.submitAddProductRawData,
\* user.submitAddProductsRawData.
UserSubmit(calling, matches) ==
    /\ prod.state = FormOf(calling)
    /\ prod' = [prod EXCEPT
                   !.state = calling,
                   !.notification = "none",
                   !.submitted = IF calling \in {"updatingProduct", "deletingProduct"}
                                 THEN [id |-> prod.context.product.id, matches |-> matches]
                                 ELSE [id |-> 0, matches |-> matches]]
    /\ UNCHANGED RestOfProd

\* What the backend holds after the call succeeded.
Applied(backend, calling, product, submitted) ==
    LET without == IF product.matches
                   THEN [backend EXCEPT !.matching = @ - 1]
                   ELSE [backend EXCEPT !.other = @ - 1]
        with(b) == IF submitted.matches
                   THEN [b EXCEPT !.matching = @ + 1]
                   ELSE [b EXCEPT !.other = @ + 1]
    IN  CASE calling = "updatingProduct" -> with(without)
          [] calling = "deletingProduct" -> without
          [] OTHER -> with(backend)

\* The invoked API call resolves. updatingProduct: assign product and its entry
\* of products, back to displayingProduct; the others: to fetchingProducts.
ApiDone ==
    /\ prod.state \in CallingStates
    /\ prod.changes < MaxChanges
    /\ LET after == Applied(prod.backend, prod.state, prod.context.product, prod.submitted)
       IN  /\ after.matching >= 0 /\ after.other >= 0
           /\ after.other <= MaxOther
           /\ after.matching + after.other <= MaxProducts
           /\ prod' =
                IF prod.state = "updatingProduct"
                THEN [prod EXCEPT
                        !.state = "displayingProduct",
                        !.backend = after,
                        !.changes = @ + 1,
                        !.submitted = NoProduct,
                        !.context.product = prod.submitted,
                        !.context.products =
                            [i \in DOMAIN @ |-> IF @[i].id = prod.submitted.id
                                                THEN prod.submitted ELSE @[i]],
                        !.notification = "Product updated successfully"]
                ELSE [prod EXCEPT
                        !.state = "fetchingProducts",
                        !.backend = after,
                        !.changes = @ + 1,
                        !.submitted = NoProduct,
                        !.notification = IF prod.state = "deletingProduct"
                                         THEN "Product deleted successfully"
                                         ELSE "Product added successfully"]
    /\ UNCHANGED RestOfProd

\* The invoked API call fails.
ApiError ==
    /\ prod.state \in CallingStates
    /\ prod' = onError(prod)
    /\ UNCHANGED RestOfProd

NextProd ==
    \/ AppStartManagingProducts
    \/ \E tab \in Tabs \ {"managingProducts"} : AppStopManagingProducts(tab)
    \/ FetchDone
    \/ FetchError
    \/ UserNextPage
    \/ UserPreviousPage
    \/ \E filter \in {NoFilter, "matching"} : UserApplyFilter(filter)
    \/ \E i \in 1..PAGE_SIZE : UserSelectProduct(i)
    \/ UserAddProducts
    \/ UserCloseDialog
    \/ UserCancel
    \/ \E form \in {"displayingUpdateProductForm", "displayingDeleteProductForm"} :
          UserSelectForm(form)
    \/ \E calling \in CallingStates : \E matches \in BOOLEAN : UserSubmit(calling, matches)
    \/ ApiDone
    \/ ApiError

SpecProd == InitProd /\ [][NextProd]_vars


\* ------------------------------------------------------------------ claims
\* The test cases whose responses a result holds.
ResultCases(kind, res) ==
    IF kind \in SingleKinds THEN {res.response.replyTo[1]}
    ELSE IF kind = "consistency"
         THEN {res.mainPromptResponse.replyTo[1]}
              \cup {x.replyTo[1] : x \in Range(res.variationResponses)}
    ELSE {x.replyTo[1] : x \in Range(res.conversation)}

ResultsPaired ==
    \A i \in DOMAIN runner.testResults :
        ResultCases(runner.kind, runner.testResults[i]) = {i - 1}

FirstRunComplete == log.runs = 1 /\ log.completed = 1 /\ runner.state = "idle"

\* C1: when the first run of an accuracy, feature_inference, robustness or
\* context_retention runner finishes through testIsComplete, every test case
\* has been sent and testResults holds exactly one result per test case, in order.
C1_CompleteRunHasAllResults ==
    (runner.kind \in SingleKinds \cup {"context_retention"} /\ FirstRunComplete)
        => /\ Len(runner.testResults) = Len(runner.testCases)
           /\ \A i \in 1..Len(runner.testCases) : <<i - 1, 0>> \in sent
           /\ ResultsPaired

\* C2: a resumed run continues at the test case that was current when it was
\* paused, and every recorded testResults[i] answers a request sent for
\* testCases[i], wherever the response to the request in flight at the pause arrives.
ResumeStep == runner.state = "running.paused" /\ runner'.state = SendingState(runner.kind)

C2_ResumeKeepsResultsPaired ==
    /\ []ResultsPaired
    /\ [][ResumeStep =>
            /\ runner'.currentTestIndex = runner.currentTestIndex
            /\ ws.state = "connected" =>
                   inflight'[Len(inflight')][1] = runner.currentTestIndex]_vars

\* C3: in every reachable state progress lies in 0..100 and equals
\* 100 * len(testResults) / len(testCases)   (progress is held as its numerator
\* over len(testCases)).
C3_ProgressTracksResults ==
    /\ runner.progress >= 0
    /\ runner.progress <= 100 * Len(runner.testCases)
    /\ runner.progress = 100 * Len(runner.testResults)

\* C4: with the connection up, every request answered and no pause or stop, a
\* run started on a fresh runner returns the runner to idle.
C4_RunReturnsToIdle == (runner.state = "connecting") ~> (runner.state = "idle")

\* C5: after a failed connection attempt or a socket disconnect the machine
\* re-enters connecting while reconnectionAttempts is below
\* MAX_RECONNECTION_ATTEMPTS, and gives up (idle, 'Failed to reconnect after
\* multiple attempts') only once the limit has been reached.
ReconnectStep == ws'.reconnectionAttempts = ws.reconnectionAttempts + 1

C5_ReconnectsBelowLimit ==
    [][ReconnectStep =>
          IF ws'.reconnectionAttempts < MAX_RECONNECTION_ATTEMPTS
          THEN ws'.state = "connecting"
          ELSE /\ ws'.state = "idle"
               /\ ws'.notification = "Failed to reconnect after multiple attempts"]_vars

\* The step in which the invoked importState actor's result is taken.
ImportDoneStep ==
    /\ app.state = "importingState.importingState"
    /\ app'.event = "xstate.done.actor.importState"
    /\ app.invokeInput.file.state.version = APP_STATE_VERSION

TestsRestored(saved, context) ==
    /\ Len(context.tests) = Len(saved.tests)
    /\ \A i \in DOMAIN saved.tests :
          /\ i \in DOMAIN context.tests
          /\ context.tests[i].testId = saved.tests[i].testId
          /\ context.tests[i].name = saved.tests[i].name
          /\ context.tests[i].testType = saved.tests[i].testType
          /\ context.tests[i].testRunnerRef.testCases = saved.tests[i].testRunnerState.testCases
          /\ context.tests[i].testRunnerRef.testResults = saved.tests[i].testRunnerState.testResults
          /\ context.tests[i].testRunnerRef.currentTestIndex
                = saved.tests[i].testRunnerState.currentTestIndex
    /\ context.selectedTest.testId = saved.selectedTest.testId

\* C6: importing a file that holds the serialized app state restores the tests:
\* the new test actor has the same tests (testId, name, test type, runner with
\* the saved testCases, testResults, currentTestIndex) and the same selectedTest.
C6_ImportRestoresTests ==
    [][(ImportDoneStep /\ app'.status = "active")
          => TestsRestored(app.invokeInput.file.state.testState,
                           app'.context.testRef.context)]_vars

\* C7: importing a file that holds the serialized app state restores the chat,
\* whatever the chat history: the import does not fail, and the new chat actor
\* has the saved sessionId and the saved chatHistory entries in order.
C7_ImportRestoresChat ==
    [][ImportDoneStep
          => /\ app'.status = "active"
             /\ app'.context.chatRef.context.sessionId
                   = app.invokeInput.file.state.chatState.sessionId
             /\ [i \in DOMAIN app'.context.chatRef.context.chatHistory |->
                    JsonMessage(app'.context.chatRef.context.chatHistory[i])]
                   = app.invokeInput.file.state.chatState.chatHistory]_vars

ExportSubmitStep ==
    /\ app.status = "active"
    /\ app.state = "exportingState.displayingExportStateForm"
    /\ app'.event = "user.submitExportStateForm"

ExportDoneStep ==
    /\ app.status = "active"
    /\ app.state = "exportingState.exportingState"
    /\ app' # app

\* C8: from exportingState.displayingExportStateForm, user.submitExportStateForm
\* invokes exportState with the serialized app state; when it completes the app
\* is back in the open substate it left and has emitted 'State exported
\* successfully'.
C8_ExportInvokesAndReturns ==
    [][/\ ExportSubmitStep
          => /\ app'.status = "active"
             /\ app'.state = "exportingState.exportingState"
             /\ app'.invokeInput.kind = "export"
             /\ app'.invokeInput.state = serializeAppState([context |-> app.context])
       /\ ExportDoneStep
          => /\ app'.state = "open"
             /\ app'.open = app.open
             /\ app'.notification = "State exported successfully"]_vars

\* C9: while the application is open the state is saved to local storage on a
\* timer: every time 30 seconds pass in the open state, sys.saveState is
\* delivered and localStorage holds the serialized state under 'appState'.
AutosavePeriodStep ==
    /\ app.status = "active"
    /\ app.state = "open"
    /\ app'.elapsed = app.elapsed + 1

C9_AutosaveWritesAppState ==
    [][AutosavePeriodStep
          => app'.localStorage.appState
                = JsonRoundTrip(serializeAppState([context |-> app.context]))]_vars

\* C10: a text_response in the format of the backend README (session_id,
\* message_id, message {type, response, products, reasoning, follow_up_question,
\* metadata}, timestamp, is_complete, model, architecture_choice) is accepted by
\* responseMessageFromJson and forwarded as webSocket.messageReceived.
InReadmeFormat(p) ==
    /\ p.top = BaseTop \cup {"message_id"}
    /\ p.inner = BaseInner \cup {"response", "products"}

C10_ReadmeResponseForwarded ==
    (incoming.outcome # "none" /\ InReadmeFormat(incoming.payload))
        => /\ incoming.outcome = "forwarded"
           /\ parentEvent.type = "webSocket.messageReceived"

\* C11: every text_message webSocketMachine emits carries a type, a session id
\* and a message id, and its session id is the sessionId of the
\* parentActor.connect that opened the connection, whatever sessionId the
\* parentActor.sendMessage data held: the context's sessionId is set only by the
\* connect that takes idle to connecting, and an emitted message carries it.
C11_EmittedSessionIsConnectSession ==
    [][/\ ws'.sessionId # ws.sessionId
          => ws.state = "idle" /\ ws'.state = "connecting"
       /\ socketEmit'.message # socketEmit.message
          => /\ ws.state = "connected"
             /\ socketEmit'.message.session_id = ws.sessionId
             /\ socketEmit'.message.type # Undefined
             /\ socketEmit'.message.message_id # Undefined]_vars

C11_EmittedWithOtherEventSession ==
    /\ socketEmit.message # NoMessage
    /\ socketEmit.data.sessionId # socketEmit.message.session_id

\* C12: when the first run of a consistency, conversational_flow or
\* defensibility runner finishes through guard testIsComplete, testResults
\* holds exactly one result per test case and currentTestIndex is their number.
FirstRunFinished == log.runs = 1 /\ log.completed = 1

C12_CompleteRunCountsEveryCase ==
    (runner.kind \in {"consistency", "conversational_flow", "defensibility"}
        /\ FirstRunFinished)
        => /\ Len(runner.testResults) = Len(runner.testCases)
           /\ runner.currentTestIndex = Len(runner.testCases)

C12_FinishedRunOfTwoCases ==
    /\ runner.kind \in {"consistency", "conversational_flow", "defensibility"}
    /\ FirstRunFinished
    /\ runner.state = "idle"
    /\ Len(runner.testCases) >= 2
    /\ log.pauses >= 1

\* C13: in the product machine currentPage is never negative, and in
\* displayingProductsTable with totalProducts > 0 the displayed page is not
\* past the last one: currentPage * PAGE_SIZE < totalProducts.
C13_PageWithinTotal ==
    /\ prod.context.currentPage >= 0
    /\ (prod.state = "displayingProductsTable" /\ prod.context.totalProducts > 0)
          => prod.context.currentPage * PAGE_SIZE < prod.context.totalProducts

\* C14: when the add, update or delete API call fails, the product machine is
\* back in the form the request was submitted from, has emitted the error
\* notification, and its context is unchanged.
ApiFailedStep ==
    /\ prod.state \in CallingStates
    /\ prod'.notification = FailureMessage(prod.state)

C14_FailedCallKeepsContext ==
    [][ApiFailedStep
          => /\ prod'.state = FormOf(prod.state)
             /\ prod'.context = prod.context]_vars

C14_FailedDeleteOnSecondPage ==
    /\ prod.state = "displayingDeleteProductForm"
    /\ prod.notification = "Failed to delete product"
    /\ prod.context.currentPage = 1

\* C15: test creation rejects a file whose cases lack what the test type needs
\* at run time (products for accuracy, variations for consistency, a
\* conversation of at least 2 turns for the conversation test types), so every
\* created runner has these fields and none fails on a missing field while running.
NeededAtRunTime(testCase, kind) ==
    CASE kind = "accuracy" -> testCase.products
      [] kind = "consistency" -> testCase.variations # Absent
      [] kind \in TurnKinds -> testCase.conversation >= 2
      [] OTHER -> TRUE

C15_CreatedRunnerHasNeededFields ==
    /\ \A i \in DOMAIN runner.testCases : NeededAtRunTime(runner.testCases[i], runner.kind)
    /\ runner.state # "error"

\* C16: once user.submitUpdateSettingForm or user.submitResetSettings has been
\* processed, the settings in the chat actor's and the test actor's contexts
\* equal those of the app actor's context, whatever state the two actors are in.
SettingsStep ==
    /\ app.status = "active"
    /\ app.state = "updatingSettings.displayingUpdateSettingForm"
    /\ app'.event \in {"user.submitUpdateSettingForm", "user.submitResetSettings"}

C16_SettingsReachChatAndTest ==
    [][SettingsStep => /\ app'.context.chatRef.context.model = app'.context.model
                       /\ app'.context.testRef.context.model = app'.context.model]_vars

\* The settings were changed from the test tab while the chat actor is still
\* connecting and the test actor holds a test: both carry the new model.
C16_ChangedWhileChatConnecting ==
    /\ app.event = "user.submitUpdateSettingForm"
    /\ app.context.model = "gpt-4o-mini"
    /\ app.open = "testing"
    /\ app.context.chatRef.state = "connecting"
    /\ Len(app.context.testRef.context.tests) > 0
    /\ app.context.chatRef.context.model = "gpt-4o-mini"
    /\ app.context.testRef.context.model = "gpt-4o-mini"

\* C17: every request a test runner builds carries model, architectureChoice and
\* historyManagementChoice equal to the sender's context.model,
\* context.architecture and context.historyManagement at the time of sending.
C17_RequestCarriesSenderSettings ==
    request # NoRequest
        => /\ request.model = runner.model
           /\ request.architectureChoice = runner.architecture
           /\ request.historyManagementChoice = runner.historyManagement

\* C18: when the socket disconnects while webSocketMachine is in connected,
\* the parent actor is informed with webSocket.disconnected.
SocketDisconnectStep ==
    /\ ws.state = "connected"
    /\ ws'.state # "connected"
    /\ ws'.reconnectionAttempts = ws.reconnectionAttempts + 1

C18_DisconnectInformsParent ==
    [][SocketDisconnectStep => parentEvent'.type = "webSocket.disconnected"]_vars

\* C19: after a failed connection attempt (socketConnector rejects) a runner
\* waiting in connecting eventually leaves connecting.
C19_FailedConnectLeavesConnecting ==
    (runner.state = "connecting" /\ ws.reconnectionAttempts > 0)
        ~> (runner.state # "connecting")

\* C20: a user.stopTest that takes the runner to disconnecting eventually
\* returns it to idle, also when the socket has already dropped.
C20_StopReturnsToIdle ==
    (runner.state = "disconnecting") ~> (runner.state = "idle")

\* C21: whenever a runner executes its send action (entry of the sending
\* substate: on webSocket.connected, on user.continueTest, after an evaluation),
\* currentTestIndex < len(testCases), also when the test is started again
\* after a completed run.
SendOnEntryStep ==
    \/ runner.state = "connecting" /\ ws.state = "connecting" /\ ws'.state = "connected"
    \/ runner.state = "running.paused" /\ runner'.state # "running.paused"
                                        /\ runner'.state \notin {"idle", "disconnecting"}

C21_SendsWithinTestCases ==
    [][/\ SendOnEntryStep => HasCase(runner)
       /\ runner'.state = SendingState(runner'.kind) => HasCase(runner')]_vars

\* C22: in each consistency test result mainPromptResponse answers the main
\* prompt request (messageId suffix _0) and variationResponses[k] answers the
\* request for variations[k], in whatever order the responses arrived.
C22_ResponsesMatchRequests ==
    runner.kind = "consistency"
        => \A i \in DOMAIN runner.testResults :
               LET res == runner.testResults[i]
               IN  /\ res.mainPromptResponse.replyTo[2] = 0
                   /\ \A k \in DOMAIN res.variationResponses :
                          res.variationResponses[k].replyTo[2] = k

\* C23: for a consistency test case with V variations the runner sends exactly
\* V + 1 requests on entering sendingMessage, moves to evaluatingResults only
\* after exactly V + 1 responses received since that entry, and the recorded
\* result holds one main response and V variation responses.
ConsistencyEntryStep ==
    /\ runner'.state = "running.sendingMessage"
    /\ \/ runner.state \in {"connecting", "running.paused"}
       \/ Len(runner'.testResults) > Len(runner.testResults)

ConsistencyEvaluateStep == Len(runner'.testResults) > Len(runner.testResults)

C23_BatchOfVariationsPlusOne ==
    [][runner.kind = "consistency" =>
          /\ ConsistencyEntryStep =>
                /\ runner'.pendingResponses = CurrentCase(runner').variations
                /\ runner'.currentResponses = <<>>
                /\ ws'.state = "connected" =>
                      Len(inflight') = Len(inflight) + CurrentCase(runner').variations + 1
                                       - (IF runner.state = "running.sendingMessage" THEN 1 ELSE 0)
          /\ ConsistencyEvaluateStep =>
                /\ Len(runner.currentResponses) = CurrentCase(runner).variations
                /\ runner.pendingResponses = 0
                /\ Len(runner'.testResults) = Len(runner.testResults) + 1
                /\ Len(runner'.testResults[Len(runner'.testResults)].variationResponses)
                      = CurrentCase(runner).variations]_vars

\* Two consistency results recorded, each for a test case with a variation.
C23_TwoBatchesRecorded ==
    /\ runner.kind = "consistency"
    /\ Len(runner.testResults) = 2
    /\ \A i \in 1..2 :
          /\ runner.testCases[i].variations >= 1
          /\ Len(runner.testResults[i].variationResponses) = runner.testCases[i].variations

\* C24: a conversation runner sends the turns of a test case one at a time and
\* in order (turn k is sent when k responses have been appended to
\* context.conversation), records a result only after len(conversation)
\* responses have been appended, and then resets conversation to empty and
\* conversationIndex to 0.
TurnEmitStep == Len(inflight') >= Len(inflight) /\ inflight' # inflight

TurnResultStep == Len(runner'.testResults) > Len(runner.testResults)

C24_TurnsOneAtATimeInOrder ==
    [][runner.kind \in TurnKinds =>
          /\ TurnEmitStep =>
                /\ Len(inflight') <= Len(inflight) + 1
                /\ inflight'[Len(inflight')] =
                       <<runner'.currentTestIndex, runner'.conversationIndex>>
                /\ Len(runner'.conversation) = runner'.conversationIndex
                /\ runner'.conversationIndex < CurrentCase(runner').conversation
          /\ TurnResultStep =>
                /\ Len(runner.conversation) + 1 = CurrentCase(runner).conversation
                /\ Len(runner'.testResults[Len(runner'.testResults)].conversation)
                      = CurrentCase(runner).conversation
                /\ runner'.conversation = <<>>
                /\ runner'.conversationIndex = 0]_vars

\* A conversation runner has recorded a result of two turns and sent the first
\* turn of the next test case.
C24_ResultThenNextCase ==
    /\ runner.kind \in TurnKinds
    /\ Len(runner.testResults) = 1
    /\ Len(runner.testResults[1].conversation) = 2
    /\ runner.state = "running.sendingConversationTurn"
    /\ runner.conversationIndex = 0
    /\ <<1, 0>> \in Range(inflight)

\* C25: in every reachable state of a runner created with the default input,
\* len(testResults) = currentTestIndex <= len(testCases).
C25_ResultsCountIsIndex ==
    /\ Len(runner.testResults) = runner.currentTestIndex
    /\ runner.currentTestIndex <= Len(runner.testCases)

\* A second run has ended with a result for each of two test cases.
C25_AllResultsAfterSecondRun ==
    /\ log.runs = 2
    /\ Len(runner.testCases) = 2
    /\ Len(runner.testResults) = 2
    /\ runner.currentTestIndex = 2
    /\ runner.state = "idle"

\* C26: webSocketMachine enters connected and sends webSocket.connected only
\* after the handshake has completed in order (connect, connection_init
\* emitted, connection_ack received, session_init emitted with the session id,
\* session_init received), sends it once per accepted parentActor.connect, and
\* emits no text_message before it.
FullHandshake(sid) ==
    <<Received("connect"), Emitted("connection_init", "none"),
      Received("connection_ack"), Emitted("session_init", sid),
      Received("session_init")>>

SendMessageStep == socketEmit' # socketEmit

C27_TrafficOnlyWhileConnected ==
    [][/\ socketEmit'.message # socketEmit.message => ws.state = "connected"
       /\ (incoming'.outcome \notin {"none", incoming.outcome} \/ (parentEvent' # parentEvent
                                      /\ parentEvent'.type = "webSocket.messageReceived"))
            => ws.state = "connected"
       /\ (SendMessageStep /\ ws.state # "connected")
            => /\ socketEmit'.message = socketEmit.message
               /\ ws'.socket = ws.socket
               /\ ws'.sessionId = ws.sessionId
               /\ ws'.reconnectionAttempts = ws.reconnectionAttempts
               /\ ws'.state = ws.state]_vars

\* A parentActor.sendMessage arrived while the machine was connecting for
\* another session, after a text_message had been emitted on the earlier
\* connection: it was dropped and the earlier message is still the last one.
C27_SendMessageWhileConnecting ==
    /\ ws.state = "connecting"
    /\ ws.sessionId = "s2"
    /\ socketEmit.dropped
    /\ socketEmit.message # NoMessage
    /\ socketEmit.message.session_id = "s1"

\* C28: whenever testMachine is in displayingTest.displayingTestDetails,
\* selectedTest is non-null and is one of the tests in context.tests.
C28_DetailsShowSelectedTest ==
    app.context.testRef.state = "displayingTest.displayingTestDetails"
        => /\ app.context.testRef.context.selectedTest # Null
           /\ \E i \in DOMAIN app.context.testRef.context.tests :
                  app.context.testRef.context.tests[i].testId
                      = app.context.testRef.context.selectedTest.testId

\* C29: after the app leaves open.chatting the chat actor is closed: while the
\* app shows another tab the chat actor is neither connecting nor chatting and
\* its web socket actor is not connected.
C29_ChatClosedOnOtherTab ==
    (app.status = "active" /\ app.state = "open" /\ app.open # "chatting")
        => /\ app.context.chatRef.state \notin Chatting
           /\ app.context.chatRef.context.webSocketRef.state # "connected"

\* C30: whenever the app actor is in open.managingProducts the product actor is
\* in displayingProducts, never idle, also after a failed product fetch.
C30_ProductsShownOnProductsTab ==
    (app.status = "active" /\ app.state = "open" /\ app.open = "managingProducts")
        => prod.state # "idle"

\* C31: chatHistory alternates: it never holds two consecutive user requests.
C31_ChatHistoryAlternates ==
    LET chatHistory == app.context.chatRef.context.chatHistory
    IN  \A i \in DOMAIN chatHistory :
            (i + 1 \in DOMAIN chatHistory /\ chatHistory[i].isUserMessage)
                => ~chatHistory[i + 1].isUserMessage

\* The step in which the result of importState is taken for a file that is
\* JSON and holds another version than APP_STATE_VERSION.
ImportOtherVersionStep ==
    /\ app.status = "active"
    /\ app.state = "importingState.importingState"
    /\ app.invokeInput.file.json
    /\ app.invokeInput.file.state.version # APP_STATE_VERSION
    /\ app'.event \in {"xstate.done.actor.importState", "xstate.error.actor.importState"}

\* C32: importing a state file of another version is rejected like an
\* unparsable file: the context is unchanged, the app is back in
\* importingState.displayingImportStateForm with 'Failed to import state' and
\* still processes events.
C32_OtherVersionRejected ==
    [][ImportOtherVersionStep
          => /\ app'.status = "active"
             /\ app'.context = app.context
             /\ app'.state = "importingState.displayingImportStateForm"
             /\ app'.notification = "Failed to import state"]_vars

\* A single-message runner handles webSocket.messageReceived in
\* running.sendingMessage for a test case that carries what its
\* updateTestResults reads: the handler appends a result or fails.
SingleReceiveStep ==
    /\ runner.kind \in SingleKinds
    /\ runner.state = SendingState(runner.kind)
    /\ ws.state = "connected"
    /\ HasCase(runner)
    /\ runner.kind = "accuracy" => CurrentCase(runner).products
    /\ \/ Len(runner'.testResults) # Len(runner.testResults)
       \/ runner'.state = "error"

\* C33: every webSocket.messageReceived handled in running.sendingMessage of
\* the accuracy, feature_inference or robustness runner appends exactly one
\* result and increments currentTestIndex by one, also for a response without
\* a products list; the runner never fails on such a response.
C33_ResponseAlwaysRecorded ==
    [][SingleReceiveStep
          => /\ runner'.state # "error"
             /\ Len(runner'.testResults) = Len(runner.testResults) + 1
             /\ runner'.currentTestIndex = runner.currentTestIndex + 1]_vars

\* ------------------------------------ calculateProductAccuracy on its own
ProductNames == {"Desk", "desk", "lamp"}

ProductLists ==
    UNION {[1..n -> {[name |-> x] : x \in ProductNames}] : n \in 0..MaxListed}

InitCalc ==
    /\ \E actual \in ProductLists :
       \E expected \in {[defined |-> FALSE, list |-> <<>>]}
                          \cup {[defined |-> TRUE, list |-> l] : l \in ProductLists} :
           calc = [NoCalc EXCEPT !.actualProducts = actual, !.expectedProducts = expected]
    /\ app = AppInitial
    /\ prod = ProdInitial(NoBackend)
    /\ runner = RunnerInitial("accuracy", <<>>)
    /\ ws = WsInitial
    /\ inflight = <<>>
    /\ sent = {}
    /\ log = [pauses |-> 0, runs |-> 0, completed |-> 0]
    /\ parentEvent = NoEvent
    /\ socketEmit = NoEmit
    /\ incoming = NoIncoming
    /\ request = NoRequest
    /\ handshake = NoHandshake

\* updateTestResults of the accuracy runner computes productAccuracy and passed.
Calculate ==
    /\ ~calc.called
    /\ LET productAccuracy == calculateProductAccuracy(calc.actualProducts,
                                                       calc.expectedProducts)
       IN  calc' = [calc EXCEPT !.called = TRUE,
                                !.productAccuracy = productAccuracy,
                                !.passed = isTestPassed(productAccuracy)]
    /\ UNCHANGED <<runner, ws, inflight, sent, log, parentEvent, socketEmit, incoming, app,
                   prod, request, handshake>>

NextCalc == Calculate

SpecCalc == InitCalc /\ [][NextCalc]_vars

\* C34: the productAccuracy the accuracy runner records is a number between 0
\* and 1, also when the response lists a name more than once or the expected
\* list holds duplicate names or is empty.
C34_AccuracyBetweenZeroAndOne ==
    calc.called
        => /\ ~IsNaN(calc.productAccuracy)
           /\ calc.productAccuracy.den > 0
           /\ 0 <= calc.productAccuracy.num
           /\ calc.productAccuracy.num <= calc.productAccuracy.den

\* A dialog is closed by user.cancelImportState, user.cancelExportState,
\* user.cancelUpdateSetting, user.submitUpdateSettingForm or
\* user.submitResetSettings.
DialogClosedStep ==
    /\ app.status = "active" /\ app.state # "open"
    /\ app'.event \in {"user.cancel", "user.submitUpdateSettingForm",
                       "user.submitResetSettings"}

\* A tab is selected while a dialog state is active.
SelectInDialogStep ==
    /\ app.status = "active" /\ app.state # "open"
    /\ \E tab \in Tabs : UserSelectTab(tab)

\* C35: closing a dialog by cancel, submitUpdateSettingForm or
\* submitResetSettings returns the app to the open substate that was active
\* when the dialog was opened, and tab selections are ignored while a dialog
\* state is active.
C35_DialogReturnsToSameTab ==
    [][/\ DialogClosedStep => (app'.state = "open" /\ app'.open = app.open)
       /\ SelectInDialogStep
             => /\ app'.state = app.state
                /\ app'.open = app.open
                /\ app'.context = app.context]_vars

\* Back on the test tab after the settings dialog, opened there, was submitted.
C35_BackOnTestTabAfterSettings ==
    /\ app.state = "open" /\ app.open = "testing"
    /\ app.event = "user.submitUpdateSettingForm"
    /\ app.context.model = "gpt-4o-mini"

\* reconnecting is entered: the socketConnector rejects or the socket drops.
EnterReconnectingStep == SocketConnectorError \/ SocketDisconnect

\* parentActor.connect is accepted: the machine is idle.
ConnectAcceptedStep == ws.state = "idle" /\ \E sid \in SessionIds : ParentConnect(sid)

\* C36: reconnectionAttempts is always between 0 and MAX_RECONNECTION_ATTEMPTS,
\* every entry to reconnecting increments it by exactly one, and every
\* parentActor.connect accepted in idle resets it to 0.
C36_AttemptsBoundedAndReset ==
    /\ [](ws.reconnectionAttempts >= 0
            /\ ws.reconnectionAttempts <= MAX_RECONNECTION_ATTEMPTS)
    /\ [][/\ EnterReconnectingStep
                => ws'.reconnectionAttempts = ws.reconnectionAttempts + 1
          /\ ConnectAcceptedStep
                => (ws'.state = "connecting" /\ ws'.reconnectionAttempts = 0)]_vars

\* Connecting again with the counter back at 0 after a reconnection was given up.
C36_ResetAfterGivingUp ==
    /\ ws.state = "connecting"
    /\ ws.reconnectionAttempts = 0
    /\ ws.notification = "Failed to reconnect after multiple attempts"

====
